---- MODULE Spec2Model ----
(***************************************************************************)
(* Model of the activity pipeline of github-activity-monitor:              *)
(*   ActivityTracker  (src/src/activityTracker.js)  capture + retry loop   *)
(*   GitManager       (src/src/gitManager.js)       per-project queue and  *)
(*                                                   the periodic flush     *)
(*   GithubAPI        (src/unnamed/part_001)        remote read / write    *)
(*   Scheduler        (src/unnamed/part_000)        periodic supervisor    *)
(* JavaScript runs one handler at a time up to its next await, so every    *)
(* action below is one such run-to-suspension segment of a handler.        *)
(***************************************************************************)
EXTENDS Integers, Sequences, FiniteSets, TLC

VARIABLES
    \* ---- ActivityTracker ----
    isTracking,            \* this.isTracking
    previousContent,       \* this.previousContent : Map, as a sequence of [file, content] in insertion order
    retryAttempts,         \* this.retryAttempts
    maxCachedFiles,        \* this.maxCachedFiles
    capture,               \* one entry per invocation of the save handler: its position in
                           \* logFileActivity (pc, file, content, attempt) and what it did so
                           \* far (tries, ok, waits, notified)
    \* ---- GitManager ----
    activityQueue,         \* this.activityQueue : Map, as a sequence of [project, activities] in insertion order
    isProcessingQueue,     \* this.isProcessingQueue
    queueProcessInterval,  \* this.queueProcessInterval : 0 (null) or the id of the interval timer
    timers,                \* the interval timers that setInterval created and nobody cleared
    flush,                 \* one entry per invocation of processActivityQueue that can be in progress
    \* ---- remote store behind GithubAPI ----
    remote,                \* path -> <<>> (no such file) or <<content>> (base64 text of the file)
    \* ---- time and observation ----
    clock,                 \* logical time: source of new Date() timestamps
    enqueued,              \* every record pushed by logActivity, in push order
    tick,                  \* what the flush in progress saw and met since its tick (observation only):
                           \*   from      the number of records pushed before the tick
                           \*   log, buf  each project's remote log and buffer at the tick
                           \*   late      records pushed since the tick, before the project's read returned
                           \*   pending   records pushed, since the read in progress was issued, for the
                           \*             project that is read
                           \*   read      projects whose getFileContent has returned; failed: by throwing
                           \*   readSha   the sha of the version that getFileContent met
                           \*   touched   projects whose log somebody else wrote since the tick
                           \*   stopped   the tracker's stop() was called since the tick
    lost,                  \* records of the batches that a flush left unwritten when an
                           \* updateFile failed: the batch of that update and of those after it
    tickSkipped,           \* some timer tick has returned at the guard of processActivityQueue
    flushRejected,         \* some processActivityQueue ended by throwing to its caller
    externalWrites,        \* writes to the remote logs made by somebody else
    \* ---- observation of the cache of previous contents ----
    captured,              \* files of which logFileActivity passed its guard since the last stop()
    touched,               \* the file of every managePreviousContent call, in order, since the
                           \* cache was last empty by construction or by stop()
    \* ---- Scheduler ----
    isRunning,             \* this.isRunning
    interval,              \* this.interval : 0 (null) or the id of the interval timer
    retryCount,            \* this.retryCount
    periodic,              \* the interval timers that startPeriodicTracking created and nobody cleared
    ticking,               \* callbacks of the timer suspended at the await of line 16
    fatal,                 \* times handleError threw 'Tracking failed after maximum retries'
    \* ---- observation of the Scheduler ----
    ticks,                 \* callbacks of the timer begun so far
    outcomes,              \* "ok" or "fail" for every callback that got past line 16, in order
    failures,              \* callbacks that failed since the Scheduler last went from stopped to
                           \* running and since the last callback that succeeded
    \* ---- GithubAPI called by a client of its own ----
    call                   \* the call of getFileContent or updateFile in progress or last ended:
                           \*   pc        "idle", the request awaited ("read", "repo", "sha", "put"),
                           \*             "returned" or "thrown"
                           \*   path, content   the arguments;  sha: the local of line 120
                           \*   requests  the octokit requests issued, in order
                           \*   last      the request answered last and its answer (observation)

trackerVars == <<isTracking, previousContent, retryAttempts, maxCachedFiles, capture>>
queueVars   == <<activityQueue, isProcessingQueue, queueProcessInterval, timers, flush>>
obsVars     == <<clock, enqueued, tick, lost, tickSkipped, flushRejected, externalWrites>>
cacheObs    == <<captured, touched>>
schedVars   == <<isRunning, interval, retryCount, periodic, ticking, fatal>>
schedObs    == <<ticks, outcomes, failures>>
asideVars   == <<cacheObs, schedVars, schedObs, call>>
vars        == <<trackerVars, queueVars, remote, obsVars, cacheObs, schedVars, schedObs, call>>

----------------------------------------------------------------------------
(* Bounds of the model *)

MaxRecords   == 3     \* records created over a run (caps the clock)
MaxExternal  == 1     \* writes by other writers over a run
FlushSlots   == 2     \* invocations of processActivityQueue that may coexist
NumCaptures  == 2     \* invocations of the save handler over a run
MaxCacheOpt  == 2     \* largest options.maxCachedFiles a tracker is constructed with
MaxTicks     == 5     \* callbacks of the Scheduler's timer over a run
MaxLines     == 2     \* lines of a document saved

Projects == {"P", "Q"}
Files    == {"P/a.js"}
Contents == {<<"function a(){}", "function b(){}">>}
CacheFiles == {"P/a.js", "P/b.js", "P/c.js"}
Lines    == {"", "function a(){}", "function b(){}", "function a(){} function a(){}"}
Texts    == UNION {[1..n -> Lines] : n \in 1..MaxLines}

----------------------------------------------------------------------------
(* Sequences *)

IsPrefix(s, t) == Len(s) <= Len(t) /\ SubSeq(t, 1, Len(s)) = s

Range(s) == {s[i] : i \in 1..Len(s)}

----------------------------------------------------------------------------
(* Text.  A string is modelled by its lines, content.split('\n'): a non-empty  *)
(* sequence of lines, the empty string being the single empty line.            *)

EmptyString == <<"">>

\* The names the pattern /function\s+(\w+)\s*\(/g captures in one line.
DeclaredIn(line) ==
    CASE line = "function a(){}" -> <<"a">>
      [] line = "function b(){}" -> <<"b">>
      [] line = "function a(){} function a(){}" -> <<"a", "a">>
      [] OTHER -> <<>>

RECURSIVE matchAll(_)
matchAll(content) ==
    IF content = <<>> THEN <<>>
    ELSE DeclaredIn(Head(content)) \o matchAll(Tail(content))

Includes(s, x) == \E i \in 1..Len(s) : s[i] = x

Abs(n) == IF n < 0 THEN -n ELSE n

\* lines 111-122 with the two filters exchanged
detectFunctionChangesSwapped(oldContent, newContent) ==
    LET oldFunctions == matchAll(oldContent)
        newFunctions == matchAll(newContent)
        NotOld(f) == ~Includes(oldFunctions, f)
        NotNew(f) == ~Includes(newFunctions, f)
    IN  [added    |-> SelectSeq(oldFunctions, NotNew),
         modified |-> <<>>,
         removed  |-> SelectSeq(newFunctions, NotOld)]

\* lines 111-122
detectFunctionChanges(oldContent, newContent) ==
    LET oldFunctions == matchAll(oldContent)
        newFunctions == matchAll(newContent)
        NotOld(f) == ~Includes(oldFunctions, f)
        NotNew(f) == ~Includes(newFunctions, f)
    IN  [added    |-> SelectSeq(newFunctions, NotOld),
         modified |-> <<>>,
         removed  |-> SelectSeq(oldFunctions, NotNew)]

\* lines 124-132 without Math.abs
getLineChangesSigned(oldContent, newContent) ==
    [addedLines    |-> Len(newContent) - Len(oldContent),
     modifiedLines |-> Len(newContent) - Len(oldContent),
     totalLines    |-> Len(newContent)]

\* lines 124-132
getLineChanges(oldContent, newContent) ==
    [addedLines    |-> Len(newContent) - Len(oldContent),
     modifiedLines |-> Abs(Len(newContent) - Len(oldContent)),
     totalLines    |-> Len(newContent)]

NoNames == [added |-> <<>>, modified |-> <<>>, removed |-> <<>>]

\* lines 77-87 with line 85 testing addedLines
determineChangeTypeByAdded(changes) ==
    (IF Len(changes.functions.added) > 0 THEN {"FUNCTION_ADDED"} ELSE {})
    \cup (IF Len(changes.functions.modified) > 0 THEN {"FUNCTION_MODIFIED"} ELSE {})
    \cup (IF Len(changes.functions.removed) > 0 THEN {"FUNCTION_REMOVED"} ELSE {})
    \cup (IF Len(changes.classes.added) > 0 THEN {"CLASS_ADDED"} ELSE {})
    \cup (IF Len(changes.classes.modified) > 0 THEN {"CLASS_MODIFIED"} ELSE {})
    \cup (IF Len(changes.imports.added) > 0 THEN {"IMPORT_ADDED"} ELSE {})
    \cup (IF changes.lineChanges.addedLines > 0 THEN {"CODE_MODIFIED"} ELSE {})

\* lines 77-87
determineChangeType(changes) ==
    (IF Len(changes.functions.added) > 0 THEN {"FUNCTION_ADDED"} ELSE {})
    \cup (IF Len(changes.functions.modified) > 0 THEN {"FUNCTION_MODIFIED"} ELSE {})
    \cup (IF Len(changes.functions.removed) > 0 THEN {"FUNCTION_REMOVED"} ELSE {})
    \cup (IF Len(changes.classes.added) > 0 THEN {"CLASS_ADDED"} ELSE {})
    \cup (IF Len(changes.classes.modified) > 0 THEN {"CLASS_MODIFIED"} ELSE {})
    \cup (IF Len(changes.imports.added) > 0 THEN {"IMPORT_ADDED"} ELSE {})
    \cup (IF changes.lineChanges.modifiedLines > 0 THEN {"CODE_MODIFIED"} ELSE {})

\* getProjectName: the name of the workspace folder that holds the file.
getProjectName(file) ==
    CASE file = "P/a.js" -> "P"
      [] file = "Q/b.js" -> "Q"
      [] OTHER -> "P"

----------------------------------------------------------------------------
(* The remote store as GithubAPI sees it.                                   *)

Stringify(logs)  == [json |-> logs]          \* JSON.stringify(logs, null, 2)
Parse(text)      == text.json                \* JSON.parse(text)
Base64(text)     == [base64 |-> text]        \* Buffer.from(text).toString('base64')
FromBase64(data) == data.base64              \* Buffer.from(data, 'base64').toString()

logFile(project) == <<"projects", project, "activity-log.json">>
Paths            == {logFile(p) : p \in Projects}
ProjectOf(path)  == path[2]

FileExists(path) == remote[path] # <<>>
\* the blob sha of a file is a hash of its content: equal exactly for equal content
ShaOf(path)      == remote[path]
Undefined        == <<>>

\* The array of records stored in a project's log (empty when there is no log).
RemoteLog(p) ==
    IF FileExists(logFile(p)) THEN Parse(FromBase64(remote[logFile(p)][1])) ELSE <<>>

\* A record written by somebody else than this process.
Foreign(p, n) ==
    [file |-> "elsewhere", project |-> p, timestamp |-> n,
     changes |-> [functions |-> NoNames, classes |-> NoNames, imports |-> NoNames,
                  lineStats |-> getLineChanges(EmptyString, EmptyString), type |-> {}]]

Own(r) == r \in Range(enqueued)

----------------------------------------------------------------------------
(* GitManager: the queue                                                    *)

Has(queue, project) == \E i \in 1..Len(queue) : queue[i].project = project

IndexOf(queue, project) == CHOOSE i \in 1..Len(queue) : queue[i].project = project

Get(queue, project) == queue[IndexOf(queue, project)].activities

Set(queue, project, value) ==
    IF Has(queue, project)
    THEN [queue EXCEPT ![IndexOf(queue, project)].activities = value]
    ELSE Append(queue, [project |-> project, activities |-> value])

Buffer(p) == IF Has(activityQueue, p) THEN Get(activityQueue, p) ELSE <<>>

\* line 374: activities.push(activityLog)
PushFront(activities, activityLog) == <<activityLog>> \o activities

Push(activities, activityLog) == Append(activities, activityLog)

\* lines 369-374 without the test of line 370
logActivityQueueReset(queue, activityLog) ==
    Set(queue, activityLog.project, <<activityLog>>)

\* lines 369-374: the queue after logActivity(activityLog)
\* lines 370-374 with the record pushed twice
logActivityQueueTwice(queue, activityLog) ==
    LET projectKey == activityLog.project
        q1 == IF ~Has(queue, projectKey) THEN Set(queue, projectKey, <<>>) ELSE queue
    IN  Set(q1, projectKey, Push(Push(Get(q1, projectKey), activityLog), activityLog))

logActivityQueue(queue, activityLog) ==
    LET projectKey == activityLog.project
        q1 == IF ~Has(queue, projectKey) THEN Set(queue, projectKey, <<>>) ELSE queue
    IN  Set(q1, projectKey, Push(Get(q1, projectKey), activityLog))

\* line 356: the id of the timer that setInterval creates
NewTimer == IF timers = {} THEN 1 ELSE 1 + CHOOSE t \in timers : \A u \in timers : u <= t

\* line 355 taken as always true
NeedsTimerAlways(handle) == TRUE

\* line 355
NeedsTimer(handle) == handle = 0

\* lines 354-358 creating no timer
startQueueProcessorNever == UNCHANGED <<queueProcessInterval, timers>>

\* lines 354-358
startQueueProcessor ==
    IF NeedsTimer(queueProcessInterval)
    THEN /\ queueProcessInterval' = NewTimer
         /\ timers' = timers \cup {NewTimer}
    ELSE UNCHANGED <<queueProcessInterval, timers>>

----------------------------------------------------------------------------
(* GitManager: processActivityQueue, one action per run-to-await segment.   *)
(* A slot of flush is [pc, idx, updates, sha]:                              *)
(*   pc      "idle"   not running                                           *)
(*           "read"   awaiting getFileContent for the entry at idx (397)    *)
(*           "exists" awaiting checkRepoExists in updateFile (part_001:115) *)
(*           "sha"    awaiting repos.getContent in updateFile (122)         *)
(*           "put"    awaiting createOrUpdateFileContents (139)             *)
(*           "delay"  awaiting the 1000 ms pause after a write (427)        *)
(*   idx     position of the Map iterator of line 390                       *)
(*   updates the updates not yet written; each carries, beside file,        *)
(*           content and message, the batch it was built from (observation) *)
(*   sha     the sha updateFile fetched for the write it is about to issue  *)

IdleSlot == [pc |-> "idle", idx |-> 0, updates |-> <<>>, sha |-> Undefined]

Active(s) == flush[s].pc # "idle"

TickNone ==
    [from    |-> 0,
     log     |-> [p \in Projects |-> <<>>],
     buf     |-> [p \in Projects |-> <<>>],
     late    |-> [p \in Projects |-> <<>>],
     readSha |-> [p \in Projects |-> Undefined],
     pending |-> <<>>,
     read    |-> {}, failed |-> {}, touched |-> {}, stopped |-> FALSE]

TickSeen ==
    [from    |-> Len(enqueued),
     log     |-> [p \in Projects |-> RemoteLog(p)],
     buf     |-> [p \in Projects |-> Buffer(p)],
     late    |-> [p \in Projects |-> <<>>],
     readSha |-> [p \in Projects |-> Undefined],
     pending |-> <<>>,
     read    |-> {}, failed |-> {}, touched |-> {}, stopped |-> FALSE]

\* line 383: the guard of processActivityQueue
FlushGuardNoFlag(processing, size) == size = 0

FlushGuard(processing, size) == processing \/ size = 0

\* lines 390-391: the next entry at or after position i whose array is not empty
NextNonEmpty(queue, i) ==
    IF \E j \in i..Len(queue) : Len(queue[j].activities) > 0
    THEN CHOOSE j \in i..Len(queue) :
            /\ Len(queue[j].activities) > 0
            /\ \A k \in i..(j - 1) : Len(queue[k].activities) = 0
    ELSE Len(queue) + 1

\* The slot after the loop of line 390 has gone on from position i: suspended in
\* the next read, or in the first write once the iterator is exhausted, or
\* finished (line 432) when there is nothing to write.
Advance(queue, updates, i) ==
    LET j == NextNonEmpty(queue, i)
    IN  IF j <= Len(queue)
        THEN [pc |-> "read", idx |-> j, updates |-> updates, sha |-> Undefined]
        ELSE IF updates # <<>>
             THEN [pc |-> "exists", idx |-> j, updates |-> updates, sha |-> Undefined]
             ELSE IdleSlot

\* line 408: logs.push(...activities)
MergePrepend(logs, activities) == activities \o logs

Merge(logs, activities) == logs \o activities

\* line 416: this.activityQueue.set(project, [])
ClearKeep(queue, project) == queue

\* line 416 emptying the buffer of every project
ClearAll(queue, project) == [i \in 1..Len(queue) |-> [queue[i] EXCEPT !.activities = <<>>]]

Clear(queue, project) == Set(queue, project, <<>>)

\* lines 401-406 with a record put for a log that is absent
ExistingLogsFilled(outcome, path) ==
    IF outcome = "content" THEN Parse(FromBase64(remote[path][1]))
    ELSE <<Foreign(ProjectOf(path), 0)>>

\* lines 401-406: the array the batch is appended to, by outcome of the read
ExistingLogs(outcome, path) ==
    IF outcome = "content" THEN Parse(FromBase64(remote[path][1])) ELSE <<>>

\* part_001:139-146: the store accepts a write that creates a missing file
\* without sha, or that updates a file with the sha of its current version
Accepts(path, sha) ==
    IF FileExists(path) THEN sha = ShaOf(path) ELSE sha = Undefined

LowestIdle(s) == ~Active(s) /\ \A t \in 1..FlushSlots : t < s => Active(t)

\* setInterval callback of line 356: one timer tick
Tick(s) ==
    /\ timers # {}
    /\ LowestIdle(s)
    /\ IF FlushGuard(isProcessingQueue, Len(activityQueue))
       THEN /\ tickSkipped' = TRUE
            /\ UNCHANGED <<trackerVars, asideVars, queueVars, remote, clock, enqueued, tick, lost,
                           flushRejected, externalWrites>>
       ELSE LET nxt == Advance(activityQueue, <<>>, 1)
            IN  /\ flush' = [flush EXCEPT ![s] = nxt]
                /\ isProcessingQueue' = (nxt.pc # "idle")
                /\ tick' = IF nxt.pc = "idle" THEN TickNone ELSE TickSeen
                /\ UNCHANGED <<trackerVars, asideVars, activityQueue, queueProcessInterval, timers,
                               remote, clock, enqueued, lost, tickSkipped, flushRejected,
                               externalWrites>>

\* lines 397-417 after the await: getFileContent returned content, null (404)
\* or threw; then the rest of the loop up to the next await
ReadReturn(s, outcome) ==
    /\ flush[s].pc = "read"
    /\ LET project    == activityQueue[flush[s].idx].project
           path       == logFile(project)
           activities == activityQueue[flush[s].idx].activities
           logs       == Merge(ExistingLogs(outcome, path), activities)
           update     == [file |-> path, content |-> Stringify(logs),
                          message |-> Len(activities), batch |-> activities]
           queue      == Clear(activityQueue, project)
           nxt        == Advance(queue, Append(flush[s].updates, update), flush[s].idx + 1)
       IN  /\ outcome = "content" => FileExists(path)
           /\ outcome = "absent" => ~FileExists(path)
           /\ activityQueue' = queue
           /\ flush' = [flush EXCEPT ![s] = nxt]
           /\ tick' = [tick EXCEPT !.read = @ \cup {project},
                                   !.pending = <<>>,
                                   !.readSha[project] = ShaOf(path),
                                   !.failed = IF outcome = "throw" THEN @ \cup {project}
                                              ELSE @]
    /\ UNCHANGED <<trackerVars, asideVars, isProcessingQueue, queueProcessInterval, timers, remote,
                   clock, enqueued, lost, tickSkipped, flushRejected, externalWrites>>

\* lines 429-431: the catch block logs the error and does not throw again
Rethrows == FALSE

\* lines 420-431 without the finally block of 432-433
GiveUpLocked(s) ==
    /\ flush' = [flush EXCEPT ![s] = IdleSlot]
    /\ isProcessingQueue' = TRUE
    /\ flushRejected' = (flushRejected \/ Rethrows)
    /\ lost' = lost \cup UNION {Range(flush[s].updates[k].batch) :
                                    k \in 1..Len(flush[s].updates)}
    /\ tick' = TickNone
    /\ UNCHANGED <<trackerVars, asideVars, activityQueue, queueProcessInterval, timers, remote,
                   clock, enqueued, tickSkipped, externalWrites>>

\* lines 420-433: an error of updateFile ends the loop over the updates, so
\* that the flush ends with the failed update and those after it unwritten
GiveUp(s) ==
    /\ flush' = [flush EXCEPT ![s] = IdleSlot]
    /\ isProcessingQueue' = FALSE
    /\ flushRejected' = (flushRejected \/ Rethrows)
    /\ lost' = lost \cup UNION {Range(flush[s].updates[k].batch) :
                                    k \in 1..Len(flush[s].updates)}
    /\ tick' = TickNone
    /\ UNCHANGED <<trackerVars, asideVars, activityQueue, queueProcessInterval, timers, remote,
                   clock, enqueued, tickSkipped, externalWrites>>

\* part_001:115-118: checkRepoExists returned true, returned false or threw
ExistsReturn(s, outcome) ==
    /\ flush[s].pc = "exists"
    /\ IF outcome = "true"
       THEN /\ flush' = [flush EXCEPT ![s].pc = "sha"]
            /\ UNCHANGED <<trackerVars, asideVars, activityQueue, isProcessingQueue,
                           queueProcessInterval, timers, remote, obsVars>>
       ELSE GiveUp(s)

\* part_001:120-137: repos.getContent returned the file, answered 404 or threw
ShaReturn(s, outcome) ==
    /\ flush[s].pc = "sha"
    /\ LET path == flush[s].updates[1].file
       IN  /\ outcome = "file" => FileExists(path)
           /\ outcome = "absent" => ~FileExists(path)
           /\ IF outcome = "throw"
              THEN GiveUp(s)
              ELSE /\ flush' = [flush EXCEPT ![s].pc = "put",
                                             ![s].sha = IF outcome = "file" THEN ShaOf(path)
                                                        ELSE Undefined]
                   /\ UNCHANGED <<trackerVars, asideVars, activityQueue, isProcessingQueue,
                                  queueProcessInterval, timers, remote, obsVars>>

\* part_001:139-149: createOrUpdateFileContents succeeded, was rejected for its
\* sha, or failed otherwise
PutReturn(s, outcome) ==
    /\ flush[s].pc = "put"
    /\ LET path == flush[s].updates[1].file
       IN  /\ outcome = "done" => Accepts(path, flush[s].sha)
           /\ outcome = "conflict" => ~Accepts(path, flush[s].sha)
           /\ IF outcome = "done"
              THEN /\ remote' = [remote EXCEPT ![path] = <<Base64(flush[s].updates[1].content)>>]
                   /\ flush' = [flush EXCEPT ![s].pc = "delay"]
                   /\ UNCHANGED <<trackerVars, asideVars, activityQueue, isProcessingQueue,
                                  queueProcessInterval, timers, obsVars>>
              ELSE GiveUp(s)

\* line 427 after the pause: the next update, or the end of the flush (432)
DelayDone(s) ==
    /\ flush[s].pc = "delay"
    /\ LET rest == Tail(flush[s].updates)
       IN  IF rest # <<>>
           THEN /\ flush' = [flush EXCEPT ![s] = [@ EXCEPT !.pc = "exists", !.updates = rest,
                                                          !.sha = Undefined]]
                /\ UNCHANGED <<isProcessingQueue, tick>>
           ELSE /\ flush' = [flush EXCEPT ![s] = IdleSlot]
                /\ isProcessingQueue' = FALSE
                /\ tick' = TickNone
    /\ UNCHANGED <<trackerVars, asideVars, activityQueue, queueProcessInterval, timers, remote,
                   clock, enqueued, lost, tickSkipped, flushRejected, externalWrites>>

\* A flush is suspended in the read of project p's log.
Reading(p) ==
    \E s \in 1..FlushSlots :
        flush[s].pc = "read" /\ activityQueue[flush[s].idx].project = p

\* lines 367-380: logActivity(activityLog) on the queue, with its observation
logActivity(activityLog) ==
    /\ activityQueue' = logActivityQueue(activityQueue, activityLog)
    /\ startQueueProcessor
    /\ enqueued' = Append(enqueued, activityLog)
    /\ tick' = IF isProcessingQueue /\ activityLog.project \notin tick.read
               THEN [tick EXCEPT !.late[activityLog.project] = Append(@, activityLog),
                                 !.pending = IF Reading(activityLog.project)
                                             THEN Append(@, activityLog) ELSE @]
               ELSE tick

\* A client of GitManager calls logActivity directly.
LogActivityCall(p) ==
    /\ clock < MaxRecords
    /\ clock' = clock + 1
    /\ logActivity([file |-> "api", project |-> p, timestamp |-> clock + 1,
                    changes |-> Foreign(p, 0).changes])
    /\ UNCHANGED <<trackerVars, asideVars, isProcessingQueue, flush, remote, lost, tickSkipped,
                   flushRejected, externalWrites>>

\* Somebody else appends a record to a project's log in the remote store.
ExternalWrite(p) ==
    /\ externalWrites < MaxExternal
    /\ externalWrites' = externalWrites + 1
    /\ remote' = [remote EXCEPT ![logFile(p)] =
                    <<Base64(Stringify(Append(RemoteLog(p), Foreign(p, -(externalWrites + 1)))))>>]
    /\ tick' = IF isProcessingQueue THEN [tick EXCEPT !.touched = @ \cup {p}] ELSE tick
    /\ UNCHANGED <<trackerVars, asideVars, queueVars, clock, enqueued, lost, tickSkipped,
                   flushRejected>>

----------------------------------------------------------------------------
(* Construction *)

OrDefault(option, default) == IF option = 0 THEN default ELSE option

DefaultRetryAttempts == 3
DefaultMaxCachedFiles == 100

\* A capture is [pc, file, content, baseline, attempt, tries, ok, waits, notified]:
\*   baseline the cached text of the file when the handler was invoked, kept until
\*            the handler returns (observation)
\*   pc       "idle"    the handler has not been invoked
\*            "waiting" suspended in the loop of line 47, the next iteration pending
\*            "done"    logFileActivity has returned
\*   attempt  the variable of line 46
\*   tries    iterations of the loop body begun; ok: one of them reached line 64
\*   waits    the delays passed to setTimeout at line 71, in order
\*   notified calls of showErrorMessage at line 68
IdleCapture == [pc |-> "idle", file |-> "", content |-> EmptyString, baseline |-> EmptyString,
                attempt |-> 0, tries |-> 0, ok |-> FALSE, waits |-> <<>>, notified |-> 0]

InitTracker(retryOpt, cacheOpt) ==
    /\ isTracking = FALSE
    /\ previousContent = <<>>
    /\ retryAttempts = OrDefault(retryOpt, DefaultRetryAttempts)
    /\ maxCachedFiles = OrDefault(cacheOpt, DefaultMaxCachedFiles)
    /\ capture = [c \in 1..NumCaptures |-> IdleCapture]

InitQueue ==
    /\ activityQueue = <<>>
    /\ isProcessingQueue = FALSE
    /\ queueProcessInterval = 0
    /\ timers = {}
    /\ flush = [s \in 1..FlushSlots |-> IdleSlot]

\* No project has a log in the remote store yet.
InitRemote == remote = [path \in Paths |-> <<>>]

InitObs ==
    /\ clock = 0
    /\ enqueued = <<>>
    /\ tick = TickNone
    /\ lost = {}
    /\ tickSkipped = FALSE
    /\ flushRejected = FALSE
    /\ externalWrites = 0
    /\ captured = {}
    /\ touched = <<>>

\* part_000:2-8, and nothing observed yet
InitScheduler ==
    /\ isRunning = FALSE
    /\ interval = 0
    /\ retryCount = 0
    /\ periodic = {}
    /\ ticking = 0
    /\ fatal = 0
    /\ ticks = 0
    /\ outcomes = <<>>
    /\ failures = 0

NoCall == [pc |-> "idle", op |-> "", path |-> <<>>, content |-> <<>>, sha |-> Undefined,
           requests |-> <<>>, last |-> <<>>]

InitClient == call = NoCall

\* The queue and the remote store, driven through GitManager alone.
QueueInit == InitTracker(0, 0) /\ InitQueue /\ InitRemote /\ InitObs /\ InitScheduler /\ InitClient

QueueNext ==
    \/ \E p \in Projects : LogActivityCall(p)
    \/ \E s \in 1..FlushSlots : Tick(s)
    \/ \E s \in 1..FlushSlots, o \in {"content", "absent", "throw"} : ReadReturn(s, o)
    \/ \E s \in 1..FlushSlots, o \in {"true", "false", "throw"} : ExistsReturn(s, o)
    \/ \E s \in 1..FlushSlots, o \in {"file", "absent", "throw"} : ShaReturn(s, o)
    \/ \E s \in 1..FlushSlots, o \in {"done", "conflict", "error"} : PutReturn(s, o)
    \/ \E s \in 1..FlushSlots : DelayDone(s)
    \/ \E p \in Projects : ExternalWrite(p)

SpecQueue == QueueInit /\ [][QueueNext]_vars

----------------------------------------------------------------------------
(* ActivityTracker                                                          *)

retryDelay == 1000

HasKey(cache, fileName) == \E i \in 1..Len(cache) : cache[i].file = fileName

KeyIndex(cache, fileName) == CHOOSE i \in 1..Len(cache) : cache[i].file = fileName

\* line 17: this.previousContent.get(document.fileName) || ''
Previous(cache, fileName) ==
    IF HasKey(cache, fileName) THEN cache[KeyIndex(cache, fileName)].content ELSE EmptyString

\* lines 34-41 without the deletion of lines 35-38
managePreviousContentKeepAll(cache, fileName, content) ==
    IF HasKey(cache, fileName)
    THEN [cache EXCEPT ![KeyIndex(cache, fileName)].content = content]
    ELSE Append(cache, [file |-> fileName, content |-> content])

\* lines 34-41 keeping the keys of a full cache and dropping the new one
managePreviousContentKeepFirst(cache, fileName, content) ==
    IF HasKey(cache, fileName)
    THEN [cache EXCEPT ![KeyIndex(cache, fileName)].content = content]
    ELSE IF Len(cache) >= maxCachedFiles THEN cache
    ELSE Append(cache, [file |-> fileName, content |-> content])

\* lines 34-41 keeping the content of a key that is present
managePreviousContentOnce(cache, fileName, content) ==
    LET kept == IF Len(cache) >= maxCachedFiles /\ Len(cache) > 0 THEN Tail(cache) ELSE cache
    IN  IF HasKey(kept, fileName)
        THEN kept
        ELSE Append(kept, [file |-> fileName, content |-> content])

\* lines 34-41
managePreviousContent(cache, fileName, content) ==
    LET kept == IF Len(cache) >= maxCachedFiles /\ Len(cache) > 0 THEN Tail(cache) ELSE cache
    IN  IF HasKey(kept, fileName)
        THEN [kept EXCEPT ![KeyIndex(kept, fileName)].content = content]
        ELSE Append(kept, [file |-> fileName, content |-> content])

\* lines 19-24: the changes trackCodeChanges returns
trackCodeChanges(cache, fileName, currentContent) ==
    [functions   |-> detectFunctionChanges(Previous(cache, fileName), currentContent),
     classes     |-> NoNames,
     imports     |-> NoNames,
     lineChanges |-> getLineChanges(Previous(cache, fileName), currentContent)]

\* lines 50-61
ActivityLog(fileName, time, changes) ==
    [file      |-> fileName,
     project   |-> getProjectName(fileName),
     timestamp |-> time,
     changes   |-> [functions |-> changes.functions,
                    classes   |-> changes.classes,
                    imports   |-> changes.imports,
                    lineStats |-> changes.lineChanges,
                    type      |-> determineChangeType(changes)]]

\* line 44 (and extension.js:66)
NeverDisabled(tracking) == FALSE

Disabled(tracking) == ~tracking

\* line 47: the loop condition
LoopGoesOnOnceMore(attempt, limit) == attempt <= limit

LoopGoesOn(attempt, limit) == attempt < limit

\* line 67: the last failure is the one that is reported
NotifiesEachFailure(attempt, limit) == TRUE

Notifies(attempt, limit) == attempt = limit

\* line 71: the pause before the next iteration
BackoffFixed(attempt) == retryDelay

Backoff(attempt) == retryDelay * attempt

\* lines 65-73: the capture after a failed iteration
Caught(cap) ==
    LET attempt == cap.attempt + 1
        told    == Notifies(attempt, retryAttempts)
    IN  [cap EXCEPT !.attempt  = attempt,
                    !.notified = IF told THEN @ + 1 ELSE @,
                    !.waits    = IF told THEN @ ELSE Append(@, Backoff(attempt)),
                    !.pc       = IF LoopGoesOn(attempt, retryAttempts) THEN "waiting"
                                 ELSE "done"]

\* The capture as it is observed once its handler has returned.
Returned(cap) == IF cap.pc = "done" THEN [cap EXCEPT !.baseline = EmptyString] ELSE cap

\* line 53: new Date() in iteration k of capture c.  The code never compares
\* timestamps; the instants of distinct iterations are distinct, which is all
\* that the numbering keeps of them.
Instant(c, k) == 10 * c + k

\* lines 48-73: one iteration of the loop for capture c in position cap.
\* outcome "ok": line 64 is reached; "fail": gitManager.logActivity throws
\* (lines 376-378), the cache being updated already and the queue not.
\* document.getText and the Map operations of trackCodeChanges do not throw.
Try(c, cap, outcome) ==
    LET changes == trackCodeChanges(previousContent, cap.file, cap.content)
        begun   == [cap EXCEPT !.tries = @ + 1]
    IN  /\ previousContent' = managePreviousContent(previousContent, cap.file, cap.content)
        /\ touched' = Append(touched, cap.file)
        /\ IF outcome = "ok"
           THEN /\ logActivity(ActivityLog(cap.file, Instant(c, begun.tries), changes))
                /\ capture' = [capture EXCEPT ![c] = Returned([begun EXCEPT !.ok = TRUE,
                                                                          !.pc = "done"])]
           ELSE /\ capture' = [capture EXCEPT ![c] = Returned(Caught(begun))]
                /\ UNCHANGED <<activityQueue, queueProcessInterval, timers, enqueued, tick>>
        /\ UNCHANGED <<isTracking, retryAttempts, maxCachedFiles, isProcessingQueue,
                       flush, remote, clock, lost, tickSkipped, flushRejected,
                       externalWrites, schedVars, schedObs, call>>

Outcomes == {"ok", "fail"}

NextCapture(c) ==
    /\ capture[c].pc = "idle"
    /\ \A d \in 1..NumCaptures : d < c => capture[d].pc # "idle"

\* extension.js:65-69 and lines 43-75: a document is saved
SaveEvent(c, fileName, content, outcome) ==
    /\ NextCapture(c)
    /\ IF Disabled(isTracking)
       THEN /\ capture' = [capture EXCEPT ![c] = [IdleCapture EXCEPT !.pc = "done",
                                                      !.file = fileName,
                                                      !.content = content]]
            /\ UNCHANGED <<isTracking, previousContent, retryAttempts, maxCachedFiles,
                           queueVars, remote, obsVars, cacheObs, schedVars, schedObs, call>>
       ELSE /\ Try(c, [IdleCapture EXCEPT !.file = fileName, !.content = content,
                                           !.baseline = Previous(previousContent, fileName)],
                   outcome)
            /\ captured' = captured \cup {fileName}

\* line 71 after the pause: the next iteration of the loop
Retry(c, outcome) ==
    /\ capture[c].pc = "waiting"
    /\ Try(c, capture[c], outcome)
    /\ UNCHANGED captured

\* lines 94-97 (the information message it shows is not part of the state)
Start ==
    /\ isTracking' = TRUE
    /\ UNCHANGED <<previousContent, retryAttempts, maxCachedFiles, capture, queueVars, remote,
                   obsVars, cacheObs, schedVars, schedObs, call>>

\* lines 99-103 with the captures that wait for their next attempt ended
StopCancels ==
    /\ isTracking' = FALSE
    /\ previousContent' = <<>>
    /\ captured' = {}
    /\ touched' = <<>>
    /\ tick' = IF isProcessingQueue THEN [tick EXCEPT !.stopped = TRUE] ELSE tick
    /\ capture' = [c \in 1..NumCaptures |->
                      IF capture[c].pc = "waiting"
                      THEN Returned([capture[c] EXCEPT !.pc = "done"])
                      ELSE capture[c]]
    /\ UNCHANGED <<retryAttempts, maxCachedFiles, queueVars, remote, clock, enqueued,
                   lost, tickSkipped, flushRejected, externalWrites, schedVars, schedObs, call>>

\* lines 99-103 (the information message it shows is not part of the state)
Stop ==
    /\ isTracking' = FALSE
    /\ previousContent' = <<>>
    /\ captured' = {}
    /\ touched' = <<>>
    /\ tick' = IF isProcessingQueue THEN [tick EXCEPT !.stopped = TRUE] ELSE tick
    /\ UNCHANGED <<retryAttempts, maxCachedFiles, capture, queueVars, remote, clock, enqueued,
                   lost, tickSkipped, flushRejected, externalWrites, schedVars, schedObs, call>>

\* The tracker, the queue and the remote store of one activated extension:
\* extension.js:27 constructs the tracker without options.  The remote store
\* answers every call of a flush, and may refuse a write.
Init == InitTracker(0, 0) /\ InitQueue /\ InitRemote /\ InitObs /\ InitScheduler /\ InitClient

Next ==
    \/ Start
    \/ Stop
    \/ \E c \in 1..NumCaptures, f \in Files, t \in Contents, o \in Outcomes :
            SaveEvent(c, f, t, o)
    \/ \E c \in 1..NumCaptures, o \in Outcomes : Retry(c, o)
    \/ \E s \in 1..FlushSlots : Tick(s)
    \/ \E s \in 1..FlushSlots, o \in {"content", "absent"} : ReadReturn(s, o)
    \/ \E s \in 1..FlushSlots, o \in {"true"} : ExistsReturn(s, o)
    \/ \E s \in 1..FlushSlots, o \in {"file", "absent"} : ShaReturn(s, o)
    \/ \E s \in 1..FlushSlots, o \in {"done", "error"} : PutReturn(s, o)
    \/ \E s \in 1..FlushSlots : DelayDone(s)

Spec == Init /\ [][Next]_vars

\* A tracker constructed with an explicit options.maxCachedFiles, saving several
\* files of one project; the queue is never flushed.
CacheInit ==
    /\ \E cacheOpt \in 1..MaxCacheOpt : InitTracker(0, cacheOpt)
    /\ InitQueue /\ InitRemote /\ InitObs /\ InitScheduler /\ InitClient

CacheNext ==
    \/ Start
    \/ Stop
    \/ \E c \in 1..NumCaptures, f \in CacheFiles, t \in Contents, o \in Outcomes :
            SaveEvent(c, f, t, o)
    \/ \E c \in 1..NumCaptures, o \in Outcomes : Retry(c, o)

SpecCache == CacheInit /\ [][CacheNext]_vars

\* A tracker constructed with an explicit options.maxCachedFiles and started
\* at some time, saving two files with either of two texts; the queue is never
\* flushed.
CaptureFiles == {"P/a.js", "P/b.js"}
CaptureTexts == {<<"function a(){}">>, <<"function a(){}", "function b(){}">>}

CaptureNext ==
    \/ Start
    \/ \E c \in 1..NumCaptures, f \in CaptureFiles, t \in CaptureTexts, o \in Outcomes :
            SaveEvent(c, f, t, o)
    \/ \E c \in 1..NumCaptures, o \in Outcomes : Retry(c, o)

SpecCapture == CacheInit /\ [][CaptureNext]_vars

\* The activated extension with a remote store that answers every call of a
\* flush with success, files of two projects saved, and every submission
\* accepted.  The timer of line 356 is never cleared and fires again and again,
\* and every awaited call returns: weak fairness of the tick and of the steps
\* of a flush.
DeliveryFiles == {"P/a.js", "Q/b.js"}

FlushAnswered(s) ==
    \/ \E o \in {"content", "absent"} : ReadReturn(s, o)
    \/ ExistsReturn(s, "true")
    \/ \E o \in {"file", "absent"} : ShaReturn(s, o)
    \/ PutReturn(s, "done")
    \/ DelayDone(s)

DeliveryNext ==
    \/ Start
    \/ Stop
    \/ \E c \in 1..NumCaptures, f \in DeliveryFiles, t \in Contents : SaveEvent(c, f, t, "ok")
    \/ \E s \in 1..FlushSlots : Tick(s)
    \/ \E s \in 1..FlushSlots : FlushAnswered(s)

DeliveryFair ==
    /\ WF_vars(\E s \in 1..FlushSlots : Tick(s))
    /\ WF_vars(\E s \in 1..FlushSlots : FlushAnswered(s))

SpecDelivery == Init /\ [][DeliveryNext]_vars /\ DeliveryFair

\* The queue with a timer that keeps firing and a remote store that answers
\* every call, with a result or with an error: weak fairness of the tick and of
\* the return of the call that a flush awaits.
FlushReturns(s) ==
    \/ \E o \in {"content", "absent", "throw"} : ReadReturn(s, o)
    \/ \E o \in {"true", "false", "throw"} : ExistsReturn(s, o)
    \/ \E o \in {"file", "absent", "throw"} : ShaReturn(s, o)
    \/ \E o \in {"done", "error"} : PutReturn(s, o)
    \/ DelayDone(s)

ReleaseNext ==
    \/ \E p \in Projects : LogActivityCall(p)
    \/ \E s \in 1..FlushSlots : Tick(s)
    \/ \E s \in 1..FlushSlots : FlushReturns(s)

ReleaseFair ==
    /\ WF_vars(\E s \in 1..FlushSlots : Tick(s))
    /\ WF_vars(\E s \in 1..FlushSlots : FlushReturns(s))

SpecRelease == QueueInit /\ [][ReleaseNext]_vars /\ ReleaseFair

\* Saves of one file with any text of up to MaxLines lines while tracking is
\* started (extension.js:66), every submission accepted: each save is reported
\* against the text of the save before it.
DetectNext ==
    \/ Start
    \/ \E c \in 1..NumCaptures, t \in Texts : isTracking /\ SaveEvent(c, "P/a.js", t, "ok")

SpecDetect == Init /\ [][DetectNext]_vars

----------------------------------------------------------------------------
(* Scheduler (src/unnamed/part_000)                                         *)

maxRetries == 3

otherVars == <<trackerVars, queueVars, remote, obsVars, cacheObs, call>>

NewInterval == IF periodic = {} THEN 1 ELSE 1 + CHOOSE t \in periodic : \A u \in periodic : u <= t

\* line 35: clearInterval(this.interval)
clearIntervalLeft(live, id) == live

clearInterval(live, id) == live \ {id}

\* line 27: the threshold of handleError
ExhaustedLate(count) == count > maxRetries

Exhausted(count) == count >= maxRetries

\* line 17: the counter after a callback that succeeded
AfterSuccessKept(count) == count

AfterSuccess(count) == 0

\* lines 10-23
startPeriodicTracking ==
    /\ IF isRunning
       THEN UNCHANGED <<isRunning, interval, periodic, failures>>
       ELSE /\ isRunning' = TRUE
            /\ interval' = NewInterval
            /\ periodic' = periodic \cup {NewInterval}
            /\ failures' = 0
    /\ UNCHANGED <<retryCount, ticking, fatal, ticks, outcomes, otherVars>>

\* lines 33-40: what stop() assigns
stop ==
    /\ periodic' = IF interval # 0 THEN clearInterval(periodic, interval) ELSE periodic
    /\ interval' = 0
    /\ isRunning' = FALSE
    /\ retryCount' = 0

\* extension.js:82-84: somebody calls stop()
SchedulerStop ==
    /\ stop
    /\ UNCHANGED <<ticking, fatal, schedObs, otherVars>>

\* lines 14-16: a live timer fires and its callback reaches the await
TimerFires ==
    /\ periodic # {}
    /\ ticks < MaxTicks
    /\ ticks' = ticks + 1
    /\ ticking' = ticking + 1
    /\ UNCHANGED <<isRunning, interval, retryCount, periodic, fatal, outcomes, failures,
                   otherVars>>

\* lines 25-31
handleError ==
    IF Exhausted(retryCount + 1)
    THEN /\ stop
         /\ fatal' = fatal + 1
    ELSE /\ retryCount' = retryCount + 1
         /\ UNCHANGED <<isRunning, interval, periodic, fatal>>

\* lines 16-21: tracker.saveCurrentActivity() settles; "ok": it resolved,
\* "fail": it threw or rejected
TickReturn(outcome) ==
    /\ ticking > 0
    /\ ticking' = ticking - 1
    /\ outcomes' = Append(outcomes, outcome)
    /\ IF outcome = "ok"
       THEN /\ retryCount' = AfterSuccess(retryCount)
            /\ failures' = 0
            /\ UNCHANGED <<isRunning, interval, periodic, fatal>>
       ELSE /\ handleError
            /\ failures' = failures + 1
    /\ UNCHANGED <<ticks, otherVars>>

SchedulerNext ==
    \/ startPeriodicTracking
    \/ SchedulerStop
    \/ TimerFires
    \/ \E o \in Outcomes : TickReturn(o)

\* A Scheduler constructed by activate (extension.js:28) and driven by its
\* caller and its timer.
SpecScheduler == Init /\ [][SchedulerNext]_vars

\* activityTracker.js:3-133: the methods of the tracker that activate passes to
\* the Scheduler (extension.js:27-28)
TrackerMethods ==
    {"trackCodeChanges", "managePreviousContent", "logFileActivity", "determineChangeType",
     "getProjectName", "start", "stop", "dispose", "detectFunctionChanges", "getLineChanges"}

\* line 16: this.tracker.saveCurrentActivity() on that tracker, with a remote
\* store that does not fail; the call of a method that the object does not have
\* throws a TypeError before anything is awaited
saveCurrentActivity ==
    IF "saveCurrentActivity" \in TrackerMethods THEN "ok" ELSE "fail"

\* lines 14-21 on that tracker: the callback of the timer runs to its end
\* without being suspended
WiredTick ==
    /\ periodic # {}
    /\ ticks < MaxTicks
    /\ ticks' = ticks + 1
    /\ outcomes' = Append(outcomes, saveCurrentActivity)
    /\ IF saveCurrentActivity = "ok"
       THEN /\ retryCount' = AfterSuccess(retryCount)
            /\ failures' = 0
            /\ UNCHANGED <<isRunning, interval, periodic, fatal>>
       ELSE /\ handleError
            /\ failures' = failures + 1
    /\ UNCHANGED <<ticking, otherVars>>

\* The Scheduler and the tracker that activate constructs (extension.js:27-28):
\* the tracker is started and stopped and handles saves, the Scheduler is
\* started and stopped by its caller and its timer fires.
WiredNext ==
    \/ startPeriodicTracking
    \/ SchedulerStop
    \/ WiredTick
    \/ Start
    \/ Stop
    \/ \E c \in 1..NumCaptures, t \in Contents : SaveEvent(c, "P/a.js", t, "ok")

SpecWired == Init /\ [][WiredNext]_vars

----------------------------------------------------------------------------
(* GithubAPI (src/unnamed/part_001), one call at a time by a caller that    *)
(* sees what the call returns or throws                                     *)

\* part_001:96-109: checkRepoExists by the answer to repos.get, a missing
\* repository taken for a present one
checkRepoExistsAlways(answer) ==
    CASE answer = "ok"  -> "true"
      [] answer = "404" -> "true"
      [] OTHER          -> "throw"

\* part_001:96-109: checkRepoExists by the answer to repos.get
checkRepoExists(answer) ==
    CASE answer = "ok"  -> "true"
      [] answer = "404" -> "false"
      [] OTHER          -> "throw"

\* part_001:162-181: how getFileContent ends, by the answer to repos.getContent
getFileContent(answer) ==
    CASE answer = "file" -> "returned"
      [] answer = "404"  -> "returned"
      [] OTHER           -> "thrown"

\* part_001:121-137: how the inner try of updateFile ends, by the answer to
\* repos.getContent
fetchSha(answer) ==
    CASE answer = "file" -> "found"
      [] answer = "404"  -> "none"
      [] OTHER           -> "throw"

ClientTexts == {Stringify(<<Foreign("P", k)>>) : k \in 1..2}

CallOver == call.pc \in {"idle", "returned", "thrown"}

queueSide == <<trackerVars, queueVars, obsVars, cacheObs, schedVars, schedObs>>

\* part_001:162-168: getFileContent(repo, path) up to its await
CallGetFileContent(path) ==
    /\ CallOver
    /\ call' = [NoCall EXCEPT !.pc = "read", !.op = "getFileContent", !.path = path,
                              !.requests = <<"repos.getContent">>]
    /\ UNCHANGED <<remote, queueSide>>

\* part_001:170-180
ReadAnswered(answer) ==
    /\ call.pc = "read"
    /\ answer = "file" => FileExists(call.path)
    /\ answer = "404" => ~FileExists(call.path)
    /\ call' = [call EXCEPT !.pc = getFileContent(answer),
                            !.content = IF answer = "file" THEN FromBase64(remote[call.path][1])
                                        ELSE <<>>,
                            !.last = <<"repos.getContent", answer>>]
    /\ UNCHANGED <<remote, queueSide>>

\* part_001:111-115: updateFile(repo, path, content) up to its first await
CallUpdateFile(path, content) ==
    /\ CallOver
    /\ call' = [NoCall EXCEPT !.pc = "repo", !.op = "updateFile", !.path = path,
                              !.content = content, !.requests = <<"repos.get">>]
    /\ UNCHANGED <<remote, queueSide>>

\* part_001:115-126 and 150-159
RepoAnswered(answer) ==
    /\ call.pc = "repo"
    /\ call' = IF checkRepoExists(answer) = "true"
               THEN [call EXCEPT !.pc = "sha", !.requests = Append(@, "repos.getContent"),
                                 !.last = <<"repos.get", answer>>]
               ELSE [call EXCEPT !.pc = "thrown", !.last = <<"repos.get", answer>>]
    /\ UNCHANGED <<remote, queueSide>>

\* part_001:127-146 and 150-159
ShaAnswered(answer) ==
    /\ call.pc = "sha"
    /\ answer = "file" => FileExists(call.path)
    /\ answer = "404" => ~FileExists(call.path)
    /\ call' = IF fetchSha(answer) = "throw"
               THEN [call EXCEPT !.pc = "thrown", !.last = <<"repos.getContent", answer>>]
               ELSE [call EXCEPT !.pc = "put",
                                 !.sha = IF fetchSha(answer) = "found" THEN ShaOf(call.path)
                                         ELSE Undefined,
                                 !.requests = Append(@, "repos.createOrUpdateFileContents"),
                                 !.last = <<"repos.getContent", answer>>]
    /\ UNCHANGED <<remote, queueSide>>

\* part_001:139-159
PutAnswered(answer) ==
    /\ call.pc = "put"
    /\ answer = "ok" => Accepts(call.path, call.sha)
    /\ answer = "conflict" => ~Accepts(call.path, call.sha)
    /\ call' = [call EXCEPT !.pc = IF answer = "ok" THEN "returned" ELSE "thrown",
                            !.last = <<"repos.createOrUpdateFileContents", answer>>]
    /\ remote' = IF answer = "ok" THEN [remote EXCEPT ![call.path] = <<Base64(call.content)>>]
                 ELSE remote
    /\ UNCHANGED queueSide

ClientNext ==
    \/ \E path \in Paths : CallGetFileContent(path)
    \/ \E answer \in {"file", "404", "error"} : ReadAnswered(answer)
    \/ \E path \in Paths, content \in ClientTexts : CallUpdateFile(path, content)
    \/ \E answer \in {"ok", "404", "error"} : RepoAnswered(answer)
    \/ \E answer \in {"file", "404", "error"} : ShaAnswered(answer)
    \/ \E answer \in {"ok", "conflict", "error"} : PutAnswered(answer)
    \/ \E p \in Projects : ExternalWrite(p)

SpecClient == Init /\ [][ClientNext]_vars

----------------------------------------------------------------------------
(* Claims about the queue, the flush and the remote store (SpecQueue)       *)

\* The project whose update slot s is writing.
Writing(s) == ProjectOf(flush[s].updates[1].file)

\* The flush of slot s has just written p's log, its read of p had succeeded and
\* nobody else wrote p's log since the tick, and p's buffer held n >= 1 records
\* at the tick.
MergeCase(s) ==
    /\ flush[s].pc = "delay"
    /\ Writing(s) \notin tick.failed
    /\ Writing(s) \notin tick.touched
    /\ Len(tick.buf[Writing(s)]) >= 1

Pos(r) == CHOOSE k \in 1..Len(enqueued) : enqueued[k] = r

\* C2: in every reachable state, the records this process enqueued that are in a
\* project's remote log stand there in the order in which they were enqueued.
C2_EnqueueOrderInRemoteLog ==
    \A p \in Projects :
        \A i, j \in 1..Len(RemoteLog(p)) :
            (i < j /\ Own(RemoteLog(p)[i]) /\ Own(RemoteLog(p)[j]))
                => Pos(RemoteLog(p)[i]) < Pos(RemoteLog(p)[j])

\* two records of one project, written by different flushes, with a third waiting
C2_Witness ==
    \E p \in Projects :
        /\ Cardinality({i \in 1..Len(RemoteLog(p)) : Own(RemoteLog(p)[i])}) >= 2
        /\ Len(Buffer(p)) >= 1
        /\ isProcessingQueue

ActiveSlots == {s \in 1..FlushSlots : Active(s)}

\* C3: at most one processActivityQueue is in progress at any time; while the
\* in-flight flag is set no execution starts, and a tick skipped at the guard
\* changes neither the queue, the flag, the timer, any execution in progress
\* nor the remote store, so that nothing of it is left for later.
C3_FlushMutualExclusion ==
    /\ [](Cardinality(ActiveSlots) <= 1)
    /\ [][isProcessingQueue => \A s \in 1..FlushSlots : Active(s)' => Active(s)]_vars
    /\ [][tickSkipped' # tickSkipped =>
            (isProcessingQueue /\ UNCHANGED <<trackerVars, queueVars, remote>>)]_vars

C3_Witness ==
    /\ tickSkipped
    /\ isProcessingQueue
    /\ Cardinality(ActiveSlots) = 1

\* C4 as stated: every write of a flush leaves the project's remote log with its
\* previous content as a prefix, whatever the read before it returned.
C4_RemoteLogAppendOnly ==
    [][\A s \in 1..FlushSlots :
          (flush[s].pc = "put" /\ flush'[s].pc = "delay")
              => IsPrefix(RemoteLog(Writing(s)), RemoteLog(Writing(s))')]_vars

\* C5 as stated: the sha sent with a write that updates an existing log is the
\* sha of the version that the flush read and appended to.
C5_ShaOfVersionRead ==
    \A s \in 1..FlushSlots :
        (flush[s].pc = "put" /\ Writing(s) \notin tick.failed)
            => flush[s].sha = tick.readSha[Writing(s)]

Pending == UNION {UNION {Range(flush[s].updates[k].batch) : k \in 1..Len(flush[s].updates)}
                  : s \in 1..FlushSlots}

\* C6: the records of a batch whose write failed are in no buffer and in no remote
\* log, no update still to be written holds them, and no flush has ended by
\* throwing to its caller.
C6_FailedBatchDiscarded ==
    /\ \A r \in lost : \A p \in Projects :
            r \notin Range(Buffer(p)) /\ r \notin Range(RemoteLog(p))
    /\ lost \cap Pending = {}
    /\ ~flushRejected

\* a batch was lost and a later flush has since written the same project's log
C6_Witness ==
    \E r \in lost, s \in 1..FlushSlots :
        /\ flush[s].pc = "delay"
        /\ Writing(s) = r.project

----------------------------------------------------------------------------
(* Claims about the capture of a saved document (Spec)                      *)

Captures == 1..NumCaptures

\* The timestamps of the records that capture c has built so far.
InstantsOf(c) == {Instant(c, k) : k \in 1..capture[c].tries}

\* The records of capture c that logActivity has accepted, in order.
Submitted(c) == SelectSeq(enqueued, LAMBDA r : r.timestamp \in InstantsOf(c))

\* Every record that stands in a project buffer or in a remote log.
Stored == UNION {Range(Buffer(p)) \cup Range(RemoteLog(p)) : p \in Projects}

\* C7: a capture whose submission failed on attempts 1..k-1 and succeeded on
\* attempt k has made exactly k attempts, k <= retryAttempts, has submitted the
\* record of attempt k once and no other, has raised no failure notification,
\* has returned, and never makes another attempt.
C7_RetrySuccess ==
    /\ [](\A c \in Captures :
            capture[c].ok =>
                /\ capture[c].pc = "done"
                /\ capture[c].tries = capture[c].attempt + 1
                /\ capture[c].tries <= retryAttempts
                /\ capture[c].notified = 0
                /\ Len(Submitted(c)) = 1
                /\ Submitted(c)[1].timestamp = Instant(c, capture[c].tries))
    /\ [][\A c \in Captures : capture[c].ok => capture'[c] = capture[c]]_vars

\* a capture that succeeded at its third attempt
C7_Witness ==
    \E c \in Captures :
        /\ capture[c].ok
        /\ capture[c].attempt = 2
        /\ capture[c].tries = 3

\* C8: a capture whose submission failed at every attempt has returned after
\* exactly retryAttempts attempts and one failure notification, raised at the
\* last failure and not before; no record it built is in a project buffer or in
\* a remote log at any time, and it never makes another attempt.
C8_RetryExhaustion ==
    /\ [](\A c \in Captures :
            ~capture[c].ok =>
                /\ InstantsOf(c) \cap {r.timestamp : r \in Stored \cup Pending} = {}
                /\ capture[c].attempt < retryAttempts => capture[c].notified = 0
                /\ (capture[c].pc = "done" /\ capture[c].tries > 0) =>
                        /\ capture[c].tries = retryAttempts
                        /\ capture[c].attempt = retryAttempts
                        /\ capture[c].notified = 1)
    /\ [][\A c \in Captures :
            (capture[c].pc = "done" /\ ~capture[c].ok) => capture'[c] = capture[c]]_vars

\* a capture has used up its attempts while the record of another is stored
C8_Witness ==
    \E c, d \in Captures :
        /\ capture[c].pc = "done" /\ ~capture[c].ok
        /\ capture[c].tries = retryAttempts
        /\ capture[c].notified = 1
        /\ capture[d].ok
        /\ Stored # {}

Min(a, b) == IF a < b THEN a ELSE b

\* C9: the pauses of a capture are, in order, retryDelay * k after its k-th
\* failed attempt for every k < retryAttempts; there is none after the failure
\* of attempt retryAttempts, after which the capture has returned; and a
\* capture pauses only after a failure that is not the last.
C9_LinearBackoff ==
    \A c \in Captures :
        /\ Len(capture[c].waits) = Min(capture[c].attempt, retryAttempts - 1)
        /\ \A k \in 1..Len(capture[c].waits) : capture[c].waits[k] = 1000 * k
        /\ capture[c].attempt = retryAttempts => capture[c].pc = "done"
        /\ capture[c].pc = "waiting" =>
                (capture[c].attempt >= 1 /\ Len(capture[c].waits) = capture[c].attempt)

\* a capture has failed retryAttempts = 3 times: it paused 1000 and 2000, and
\* did not pause after the third failure
C9_Witness ==
    \E c \in Captures :
        /\ capture[c].attempt = 3
        /\ retryAttempts = 3
        /\ capture[c].waits = <<1000, 2000>>
        /\ capture[c].pc = "done"

\* C10: a save handled while tracking is disabled returns at once: it makes no
\* attempt and raises no notification, and it changes neither previousContent,
\* nor the queue and its timer, nor any other capture, nor the remote store;
\* the handler, once returned, does nothing later either.
C10_DisabledCaptureNoOp ==
    [][\A c \in Captures :
          /\ (capture[c].pc = "idle" /\ capture'[c].pc # "idle" /\ ~isTracking) =>
                /\ capture'[c].pc = "done"
                /\ capture'[c].tries = 0
                /\ capture'[c].notified = 0
                /\ \A d \in Captures \ {c} : capture'[d] = capture[d]
                /\ UNCHANGED <<isTracking, previousContent, queueVars, remote, enqueued>>
          /\ (capture[c].pc = "done" /\ capture[c].tries = 0) => capture'[c] = capture[c]]_vars

\* a save was ignored while tracking was stopped, with a record in P's buffer
C10_Witness ==
    \E c \in Captures :
        /\ capture[c].pc = "done"
        /\ capture[c].tries = 0
        /\ ~isTracking
        /\ Buffer("P") # <<>>

----------------------------------------------------------------------------
(* Claims about the cache of previous contents (SpecCache)                  *)

\* previousContent.keys(), in the iteration order of the Map
Keys(cache) == [i \in 1..Len(cache) |-> cache[i].file]

\* C11 as stated: stop() leaves previousContent empty, and the first capture of
\* a file since the last stop() reads the empty string as the file's previous
\* content, so that the record it submits at its first attempt holds the
\* changes of the file taken as new.
C11_RestartEmptyBaseline ==
    [][/\ (isTracking /\ ~isTracking') => previousContent' = <<>>
       /\ \A c \in Captures :
            (capture[c].pc = "idle" /\ capture'[c].tries = 1
                                    /\ capture'[c].file \notin captured) =>
                /\ Previous(previousContent, capture'[c].file) = EmptyString
                /\ capture'[c].ok =>
                       enqueued'[Len(enqueued')].changes =
                           ActivityLog(capture'[c].file, 0,
                                       trackCodeChanges(<<>>, capture'[c].file,
                                                        capture'[c].content)).changes]_vars

\* C12: previousContent never holds more than maxCachedFiles entries.
C12_CacheBound == Len(previousContent) <= maxCachedFiles

\* the cache is full after more distinct files were captured than it can hold
C12_Witness ==
    /\ Len(previousContent) = maxCachedFiles
    /\ Cardinality(Range(touched)) > maxCachedFiles

FirstTouch(f) == CHOOSE i \in 1..Len(touched) : touched[i] = f /\ \A j \in 1..(i - 1) : touched[j] # f

\* C14 as stated: an entry that a capture removes from the cache is the one that
\* was first inserted before every other entry present, and a capture of a file
\* that is in the cache leaves the keys of the cache that remain in the order
\* they had, the file's own key included.
C14_StrictInsertionOrder ==
    [][(touched' # touched /\ touched' # <<>>) =>
          LET f == touched'[Len(touched')]
              K == Keys(previousContent)
              L == Keys(previousContent')
          IN  /\ \A e \in Range(K) \ Range(L) :
                    \A x \in Range(K) : FirstTouch(e) <= FirstTouch(x)
              /\ HasKey(previousContent, f) =>
                    \A x, y \in Range(K) \cap Range(L) :
                        (KeyIndex(previousContent, x) < KeyIndex(previousContent, y))
                            => (KeyIndex(previousContent', x) < KeyIndex(previousContent', y))]_vars

----------------------------------------------------------------------------
(* Claims about the Scheduler (SpecScheduler)                               *)

TickFailed == Len(outcomes') = Len(outcomes) + 1 /\ outcomes'[Len(outcomes')] = "fail"

TickSucceeded == Len(outcomes') = Len(outcomes) + 1 /\ outcomes'[Len(outcomes')] = "ok"

\* The failed callbacks at the end of outcomes: those since the last success.
RECURSIVE TrailingFailures(_)
TrailingFailures(seq) ==
    IF seq = <<>> \/ seq[Len(seq)] = "ok" THEN 0
    ELSE 1 + TrailingFailures(SubSeq(seq, 1, Len(seq) - 1))

\* C15: a Scheduler that is running has seen fewer than maxRetries failed ticks
\* in a row since it started; the failed tick that makes them maxRetries leaves
\* it stopped, its timer cleared, and the error of handleError thrown once; and
\* a tick begins only while the Scheduler is running, so none follows until
\* startPeriodicTracking is called again.
C15_CircuitBreaker ==
    /\ [](isRunning => failures < maxRetries)
    /\ []((interval = 0 <=> ~isRunning) /\ periodic = (IF isRunning THEN {interval} ELSE {}))
    /\ [][(TickFailed /\ isRunning /\ failures' >= maxRetries) =>
              (~isRunning' /\ interval' = 0 /\ periodic' = {} /\ fatal' = fatal + 1)]_vars
    /\ [][ticks' # ticks => isRunning]_vars

\* three ticks failed in a row, the Scheduler stopped itself, and was started again
C15_Witness ==
    /\ outcomes = <<"fail", "fail", "fail">>
    /\ fatal = 1
    /\ isRunning
    /\ ticks = 4

\* C16: a tick that succeeds sets retryCount to 0, and the Scheduler stops itself
\* only at a failed tick that is at least the maxRetries-th failed tick since the
\* last tick that succeeded.
C16_ConsecutiveFailuresOnly ==
    /\ [][TickSucceeded => retryCount' = 0]_vars
    /\ [][(TickFailed /\ isRunning /\ ~isRunning') =>
              TrailingFailures(outcomes') >= maxRetries]_vars

\* two failures, a success, then the three failures that stop the Scheduler
C16_Witness ==
    /\ outcomes = <<"fail", "ok", "fail", "fail", "fail">>
    /\ fatal = 1
    /\ ~isRunning

\* C17: the step that takes a stopped Scheduler to running is no step of a
\* callback of its timer, and no tick begins while it is stopped.
C17_NoSelfHealing ==
    /\ [][(~isRunning /\ isRunning') =>
              (ticks' = ticks /\ outcomes' = outcomes /\ ticking' = ticking)]_vars
    /\ [][~isRunning => ticks' = ticks]_vars

\* stopped by exhaustion with a callback still pending, which then succeeds
C17_Witness ==
    /\ ~isRunning
    /\ fatal = 1
    /\ Len(outcomes) >= 4
    /\ outcomes[Len(outcomes)] = "ok"

----------------------------------------------------------------------------
(* Claims about the remote reads and writes                                 *)

\* The flush of slot s has just written the log of a project that had no log
\* when the flush read it, and whose log nobody else wrote since the tick.
CreateCase(s) ==
    /\ flush[s].pc = "delay"
    /\ Writing(s) \in tick.read \ (tick.failed \cup tick.touched)
    /\ tick.readSha[Writing(s)] = Undefined

\* C18: a flush that finds no log for a project goes on as from an empty log:
\* the write it sends carries no sha, and creates the log with exactly the
\* records of the project's batch, in order; the batch is not given up and the
\* flush does not throw.
C18_AbsentLogCreated ==
    \A s \in 1..FlushSlots :
        CreateCase(s) =>
            /\ flush[s].sha = Undefined
            /\ FileExists(logFile(Writing(s)))
            /\ RemoteLog(Writing(s)) = tick.buf[Writing(s)] \o tick.late[Writing(s)]
            /\ RemoteLog(Writing(s)) = flush[s].updates[1].batch
            /\ Range(flush[s].updates[1].batch) \cap lost = {}
            /\ ~flushRejected

\* the log of a project was created with a batch of two records
C18_Witness ==
    \E s \in 1..FlushSlots :
        /\ CreateCase(s)
        /\ Len(RemoteLog(Writing(s))) = 2
        /\ tick.log[Writing(s)] = <<>>

\* An answer of the store that is a failure of the call: any answer but success,
\* except that no file at the path is no failure of a read.
FailureAnswer(last) ==
    /\ last # <<>>
    /\ last[2] \notin {"ok", "file"}
    /\ ~(last[1] = "repos.getContent" /\ last[2] = "404")

\* C19: a call whose last request met a failure has thrown to its caller, and
\* only such a call has; a call issues each of its requests once at most, a call
\* that threw issues none after the one that failed, and the request that
\* failed has changed nothing in the store.
C19_FailuresSurfaceOnce ==
    /\ [](FailureAnswer(call.last) <=> call.pc = "thrown")
    /\ [](\A i, j \in 1..Len(call.requests) : call.requests[i] = call.requests[j] => i = j)
    /\ [][call.pc = "thrown" =>
            (call' = call \/ (call'.pc \in {"read", "repo"} /\ Len(call'.requests) = 1))]_vars
    /\ [][(call'.pc = "thrown" /\ call.pc # "thrown") => remote' = remote]_vars

\* a write met a conflict, the file having changed after its sha was fetched
C19_Witness ==
    /\ call.pc = "thrown"
    /\ call.last = <<"repos.createOrUpdateFileContents", "conflict">>
    /\ call.sha # Undefined
    /\ Len(call.requests) = 3

----------------------------------------------------------------------------
(* Claims about the change summary (SpecDetect)                             *)

\* The names that some line of the text declares.
Declared(text) == UNION {Range(DeclaredIn(text[i])) : i \in 1..Len(text)}

\* C20: the record of a save reports as functions added the names that the
\* saved text declares and the previous text of the file does not, as functions
\* removed the names that the previous text declares and the saved text does
\* not, and no function as modified; a save of "function a(){}" and
\* "function b(){}" after "function a(){}" reports added = [b], removed = [].
C20_FunctionChanges ==
    [][\A c \in Captures :
          (capture[c].pc = "idle" /\ capture'[c].ok) =>
              LET old == Previous(previousContent, capture'[c].file)
                  new == capture'[c].content
                  fns == enqueued'[Len(enqueued')].changes.functions
              IN  /\ Range(fns.added) = Declared(new) \ Declared(old)
                  /\ Range(fns.removed) = Declared(old) \ Declared(new)
                  /\ fns.modified = <<>>
                  /\ (old = <<"function a(){}">> /\ new = <<"function a(){}", "function b(){}">>)
                        => (fns.added = <<"b">> /\ fns.removed = <<>>)]_vars

\* the save of the example has been recorded
C20_Witness ==
    /\ Len(enqueued) = 2
    /\ capture[1].content = <<"function a(){}">>
    /\ capture[2].content = <<"function a(){}", "function b(){}">>
    /\ enqueued[2].changes.functions = [added |-> <<"b">>, modified |-> <<>>, removed |-> <<>>]

\* C21: the record of a save reports as lines added the number of lines of the
\* saved text minus that of the file's cached text, negative when there are
\* fewer, as lines modified the absolute value of that difference, and as total
\* the number of lines of the saved text; a file that has no cached text counts
\* as the empty string, which is one empty line.
C21_LineStatistics ==
    [][\A c \in Captures :
          (capture[c].pc = "idle" /\ capture'[c].ok) =>
              LET f     == capture'[c].file
                  old   == IF HasKey(previousContent, f)
                           THEN previousContent[KeyIndex(previousContent, f)].content
                           ELSE <<"">>
                  new   == capture'[c].content
                  stats == enqueued'[Len(enqueued')].changes.lineStats
              IN  /\ stats.addedLines = Len(new) - Len(old)
                  /\ stats.modifiedLines =
                        (IF Len(new) >= Len(old) THEN Len(new) - Len(old) ELSE Len(old) - Len(new))
                  /\ stats.totalLines = Len(new)]_vars

\* a new file of two lines was saved, and then saved again with one line
C21_Witness ==
    /\ Len(enqueued) = 2
    /\ Len(capture[1].content) = 2
    /\ enqueued[1].changes.lineStats = [addedLines |-> 1, modifiedLines |-> 1, totalLines |-> 2]
    /\ enqueued[2].changes.lineStats = [addedLines |-> -1, modifiedLines |-> 1, totalLines |-> 1]

ChangeTypes == {"FUNCTION_ADDED", "FUNCTION_MODIFIED", "FUNCTION_REMOVED", "CLASS_ADDED",
                "CLASS_MODIFIED", "IMPORT_ADDED", "CODE_MODIFIED"}

\* C22: the type of every record holds FUNCTION_ADDED exactly when the record
\* lists a function added, FUNCTION_REMOVED exactly when it lists one removed,
\* CODE_MODIFIED exactly when its modifiedLines is positive, the class and
\* import tags exactly when the matching list is not empty, never
\* FUNCTION_MODIFIED, and nothing else.
C22_TypeFromCounts ==
    \A i \in 1..Len(enqueued) :
        LET ch == enqueued[i].changes
        IN  /\ ch.type \subseteq ChangeTypes
            /\ "FUNCTION_ADDED" \in ch.type <=> ch.functions.added # <<>>
            /\ "FUNCTION_REMOVED" \in ch.type <=> ch.functions.removed # <<>>
            /\ "FUNCTION_MODIFIED" \notin ch.type
            /\ "CLASS_ADDED" \in ch.type <=> ch.classes.added # <<>>
            /\ "CLASS_MODIFIED" \in ch.type <=> ch.classes.modified # <<>>
            /\ "IMPORT_ADDED" \in ch.type <=> ch.imports.added # <<>>
            /\ "CODE_MODIFIED" \in ch.type <=> ch.lineStats.modifiedLines > 0

\* a new file of two lines that declares a was saved, and then saved as the one
\* line that declares b
C22_Witness ==
    /\ Len(enqueued) = 2
    /\ enqueued[1].changes.type = {"FUNCTION_ADDED", "CODE_MODIFIED"}
    /\ enqueued[2].changes.type = {"FUNCTION_ADDED", "FUNCTION_REMOVED", "CODE_MODIFIED"}
    /\ enqueued[2].changes.lineStats.addedLines = -1

----------------------------------------------------------------------------
(* Claims about the buffers and the flush timer (SpecQueue)                 *)

\* The buffer of project p in a queue (empty when the queue has no entry for p).
BufferIn(queue, p) == IF Has(queue, p) THEN Get(queue, p) ELSE <<>>

\* C23: logActivity(record) leaves the record's project with its buffer of
\* before followed by the record, a buffer that it creates when the project had
\* none; it leaves the other projects with the buffers they had, none created or
\* removed and the entries of the queue in the order they had, and it leaves the
\* remote store as it was.
C23_EnqueueFrame ==
    [][enqueued' # enqueued =>
          LET r == enqueued'[Len(enqueued')]
          IN  /\ Has(activityQueue', r.project)
              /\ BufferIn(activityQueue', r.project) = Append(Buffer(r.project), r)
              /\ \A q \in Projects \ {r.project} :
                    /\ BufferIn(activityQueue', q) = Buffer(q)
                    /\ Has(activityQueue', q) <=> Has(activityQueue, q)
              /\ \A i \in 1..Len(activityQueue) :
                    activityQueue'[i].project = activityQueue[i].project
              /\ remote' = remote]_vars

\* a record was pushed after another into P's buffer, while Q's buffer held a
\* record and a project had a log in the remote store
C23_Witness ==
    /\ Len(enqueued) = 3
    /\ enqueued[3].project = "P"
    /\ Buffer("P") = <<enqueued[2], enqueued[3]>>
    /\ Buffer("Q") = <<enqueued[1]>>
    /\ \E path \in Paths : FileExists(path)

\* C29: while no record has been enqueued there is no flush timer and
\* queueProcessInterval is null; once a record has been enqueued there is
\* exactly one flush timer, the one queueProcessInterval holds, however many
\* records were enqueued since.
C29_LazySingleTimer ==
    /\ enqueued = <<>> => (timers = {} /\ queueProcessInterval = 0)
    /\ enqueued # <<>> => (timers = {queueProcessInterval} /\ queueProcessInterval # 0)
    /\ Cardinality(timers) <= 1

\* three records were enqueued, the last while a flush was in progress
C29_Witness ==
    /\ Len(enqueued) = 3
    /\ Cardinality(timers) = 1
    /\ isProcessingQueue
    /\ tick.late[enqueued[3].project] = <<enqueued[3]>>

----------------------------------------------------------------------------
(* Claims about stop() and the work in progress (Spec)                      *)

\* C24: a step that stops tracking changes no capture, nor the queue, its timer
\* and the flush in progress, nor the remote store and what was enqueued; a
\* capture that waits for its next attempt changes only by making that attempt,
\* which counts as one more try and, when it succeeds, puts its record at the
\* end of its project's buffer, and a flush in progress changes only by its own
\* steps and writes the log it has built, all of it while tracking is stopped
\* as while it is started.
C24_StopCancelsNothing ==
    /\ [][(isTracking /\ ~isTracking') =>
            (capture' = capture /\ queueVars' = queueVars /\ remote' = remote
                /\ enqueued' = enqueued)]_vars
    /\ [][\A c \in Captures :
            (capture[c].pc = "waiting" /\ capture'[c] # capture[c]) =>
                /\ capture'[c].tries = capture[c].tries + 1
                /\ capture'[c].pc \in {"waiting", "done"}
                /\ capture'[c].ok =>
                      /\ Len(enqueued') = Len(enqueued) + 1
                      /\ enqueued'[Len(enqueued')].timestamp = Instant(c, capture'[c].tries)
                      /\ BufferIn(activityQueue', "P")
                            = Append(Buffer("P"), enqueued'[Len(enqueued')])]_vars
    /\ [][\A s \in 1..FlushSlots :
            (Active(s) /\ flush'[s] # flush[s]) =>
                /\ isTracking' = isTracking
                /\ flush[s].pc = "put" =>
                      \/ flush'[s].pc = "idle" /\ remote' = remote
                      \/ /\ flush'[s].pc = "delay"
                         /\ RemoteLog(Writing(s))' = Parse(flush[s].updates[1].content)]_vars

\* stop() was called while a flush was reading P's log and a capture was
\* waiting for its second attempt; the capture then enqueued its record, before
\* the read returned, and the flush has written it
C24_Witness ==
    /\ ~isTracking
    /\ tick.stopped
    /\ touched = <<"P/a.js">>
    /\ capture[2].tries = 2
    /\ capture[2].ok
    /\ \E s \in 1..FlushSlots : flush[s].pc = "delay"
    /\ Len(enqueued) = 2
    /\ RemoteLog("P") = enqueued

----------------------------------------------------------------------------
(* Claims about the batches of a flush (SpecQueue)                          *)

\* The read of the flush of slot s returns in this step.
ReadReturns(s) ==
    flush[s].pc = "read" /\ (flush'[s].pc # "read" \/ flush'[s].idx # flush[s].idx)

\* The project whose log the flush of slot s is reading.
ReadOf(s) == activityQueue[flush[s].idx].project

WriteFails(s) == flush[s].pc \in {"exists", "sha", "put"} /\ flush'[s].pc = "idle"

\* C26 as stated: when a flush ends, the records of the batch it took for each
\* project, other than the project whose write failed, are in that project's
\* remote log, and the records it leaves unwritten are records of the project
\* whose write failed.
C26_FailureIsolation ==
    [][\A s \in 1..FlushSlots :
          (Active(s) /\ flush'[s].pc = "idle") =>
              /\ \A q \in tick.read \ (IF WriteFails(s) THEN {Writing(s)} ELSE {}) :
                    Range(tick.buf[q] \o tick.late[q]) \subseteq Range(RemoteLog(q)')
              /\ \A r \in lost' \ lost : WriteFails(s) /\ r.project = Writing(s)]_vars

----------------------------------------------------------------------------
(* Claims about the summary of a capture and the cache (Spec, SpecCache)    *)

\* The changes of a record of file f saved with the text content, computed
\* against the text baseline.
SummaryAgainst(baseline, f, content) ==
    ActivityLog(f, 0, trackCodeChanges(<<[file |-> f, content |-> baseline]>>, f, content)).changes

\* C27 as stated: the record that a capture submits, at its first attempt or at
\* a later one, carries the changes of the saved text against the text that was
\* cached for the file when the save was handled.
C27_SummaryOncePerEvent ==
    [][\A c \in Captures :
          (~capture[c].ok /\ capture'[c].ok) =>
              LET baseline == IF capture[c].pc = "idle"
                              THEN Previous(previousContent, capture'[c].file)
                              ELSE capture[c].baseline
              IN  enqueued'[Len(enqueued')].changes =
                      SummaryAgainst(baseline, capture'[c].file, capture'[c].content)]_vars

\* C28: after every attempt of a capture, whether its submission succeeds or
\* fails, the cache holds the captured file with the captured text; and the
\* record of an attempt that follows, with no other attempt between, an attempt
\* for the same file, and that captures the text the cache holds for the file,
\* lists no function added or removed and has addedLines = modifiedLines = 0.
C28_CacheUpdatedByCapture ==
    /\ [][\A c \in Captures :
            capture'[c].tries = capture[c].tries + 1 =>
                /\ HasKey(previousContent', capture'[c].file)
                /\ previousContent'[KeyIndex(previousContent', capture'[c].file)].content
                      = capture'[c].content]_vars
    /\ [][\A c \in Captures :
            (/\ capture'[c].tries = capture[c].tries + 1
             /\ capture'[c].ok
             /\ touched # <<>>
             /\ touched[Len(touched)] = capture'[c].file
             /\ Previous(previousContent, capture'[c].file) = capture'[c].content) =>
                LET ch == enqueued'[Len(enqueued')].changes
                IN  /\ ch.functions.added = <<>>
                    /\ ch.functions.removed = <<>>
                    /\ ch.lineStats.addedLines = 0
                    /\ ch.lineStats.modifiedLines = 0]_vars

\* a file was saved twice in succession with the same text of two lines, in a
\* cache of one entry: the first record lists the functions a and b as added,
\* the second lists no change
C28_Witness ==
    /\ maxCachedFiles = 1
    /\ Len(enqueued) = 2
    /\ touched = <<"P/a.js", "P/a.js">>
    /\ capture[1].content = capture[2].content
    /\ enqueued[1].changes.functions.added = <<"a", "b">>
    /\ enqueued[2].changes.functions.added = <<>>
    /\ enqueued[2].changes.lineStats = [addedLines |-> 0, modifiedLines |-> 0, totalLines |-> 2]
    /\ enqueued[2].changes.type = {}

----------------------------------------------------------------------------
(* Claims about delivery (SpecDelivery)                                     *)

\* The record that capture c enqueued is in the remote log of its project.
Delivered(c) ==
    /\ capture[c].ok
    /\ Submitted(c)[1] \in Range(RemoteLog(getProjectName(capture[c].file)))

\* C30: when every remote read and write succeeds and the flush timer keeps
\* firing, the record that a capture has enqueued is eventually in the remote
\* log of its project, whether or not stop() is called meanwhile.
C30_EventualDelivery == \A c \in Captures : capture[c].ok ~> Delivered(c)

\* the records of two projects were enqueued, a flush began, stop() was called
\* while it was in progress, and the flush has written both records
C30_Witness ==
    /\ ~isTracking
    /\ tick.stopped
    /\ touched = <<>>
    /\ Len(tick.buf["P"]) = 1
    /\ Len(tick.buf["Q"]) = 1
    /\ \E s \in 1..FlushSlots : flush[s].pc = "delay" /\ Len(flush[s].updates) = 1
    /\ \A c \in Captures : Delivered(c)

----------------------------------------------------------------------------
(* Claims about enqueues that interleave with a flush (SpecQueue, Spec)     *)

\* The records pushed since the tick of the flush in progress.
SinceTick == {enqueued[k] : k \in (tick.from + 1)..Len(enqueued)}

Occurrences(seq, r) == Cardinality({i \in 1..Len(seq) : seq[i] = r})

\* The batches that the flush of slot s holds and has not written: all the
\* updates of the slot, but the first once its write is done (line 427).
Unwritten(s) ==
    IF flush[s].pc = "delay" THEN Tail(flush[s].updates) ELSE flush[s].updates

\* The copies of r in the batches that the flushes in progress have not written.
InBatches(r) ==
    Cardinality(UNION {UNION {{<<s, k, i>> : i \in {j \in 1..Len(Unwritten(s)[k].batch) :
                                                        Unwritten(s)[k].batch[j] = r}} :
                                  k \in 1..Len(Unwritten(s))} :
                           s \in ActiveSlots})

\* C32: a capture enqueues at most one record over all its attempts; in every
\* reachable state a record that was enqueued has at most one copy in its
\* project's buffer, the batches not yet written and its project's remote log
\* taken together, and none once it was given up; and a record enters the remote
\* log only by the write of the batch that holds it, which is then no longer
\* to be written.
C32_AtMostOnce ==
    /\ [](\A c \in Captures : Len(Submitted(c)) <= 1)
    /\ [](\A r \in Range(enqueued) :
            /\ Occurrences(enqueued, r) = 1
            /\ Occurrences(Buffer(r.project), r) + Occurrences(RemoteLog(r.project), r)
                  + InBatches(r) <= 1
            /\ r \in lost => Occurrences(Buffer(r.project), r) + InBatches(r) = 0)
    /\ [][\A r \in Range(enqueued) :
            (/\ remote' # remote
             /\ r \notin Range(RemoteLog(r.project))
             /\ r \in Range(RemoteLog(r.project)')) =>
                \E s \in 1..FlushSlots :
                    /\ flush[s].pc = "put" /\ flush'[s].pc = "delay"
                    /\ r \in Range(flush[s].updates[1].batch)
                    /\ Occurrences(RemoteLog(r.project)', r) = 1]_vars

\* a capture failed at its first attempt and succeeded at its second: its one
\* record was flushed and is once in the remote log of its project, while the
\* record of another capture is once in the buffer
C32_Witness ==
    \E c, d \in Captures :
        /\ capture[c].ok /\ capture[c].tries = 2
        /\ capture[d].ok /\ c # d
        /\ Len(enqueued) = 2
        /\ Occurrences(RemoteLog(Submitted(c)[1].project), Submitted(c)[1]) = 1
        /\ Occurrences(Buffer(Submitted(d)[1].project), Submitted(d)[1]) = 1
        /\ ~isProcessingQueue

----------------------------------------------------------------------------
(* Claims about the in-flight flag of the flush (SpecRelease)               *)

\* The k-th record pushed stands in the buffer of its project.
Buffered(k) == k <= Len(enqueued) /\ enqueued[k] \in Range(Buffer(enqueued[k].project))

\* C33: the flag isProcessingQueue is set exactly while a flush is in progress,
\* so that it is false once the flush has ended, normally or by a failed read
\* or write; a flush in progress always ends; and a record that stands in a
\* buffer is eventually taken from it by a flush, whatever failed before.
C33_FlagReleased ==
    /\ [](isProcessingQueue <=> ActiveSlots # {})
    /\ (isProcessingQueue ~> ~isProcessingQueue)
    /\ \A k \in 1..MaxRecords : Buffered(k) ~> ~Buffered(k)

\* a flush ended by a failed write and left the flag false: a later tick began a
\* flush, whose read failed, and which has gone on to its write
C33_Witness ==
    /\ lost # {}
    /\ isProcessingQueue
    /\ tick.failed # {}
    /\ \E s \in 1..FlushSlots : flush[s].pc = "put"

----------------------------------------------------------------------------
(* Claims about the eviction of cache entries (SpecCache)                   *)

\* C34 as stated: a capture of a file that is in the cache removes the entry of
\* no other file, and a capture removes an entry only when the file captured is
\* not in the cache and the cache holds maxCachedFiles entries.
C34_EvictionOnlyOnInsert ==
    [][(touched' # touched /\ touched' # <<>>) =>
          LET f == touched'[Len(touched')]
              K == Range(Keys(previousContent))
              L == Range(Keys(previousContent'))
          IN  /\ HasKey(previousContent, f) => K \subseteq L
              /\ K \ L # {} =>
                    /\ ~HasKey(previousContent, f)
                    /\ Len(previousContent) = maxCachedFiles]_vars

----------------------------------------------------------------------------
(* Claims about the restart of the Scheduler (SpecScheduler)                *)

\* C35 as stated: at the step that takes the Scheduler from stopped to running
\* retryCount is 0, and a Scheduler that was started stops itself only at a
\* failed tick that makes maxRetries failed ticks in a row since that start.
C35_FreshCounterOnRestart ==
    /\ [][(~isRunning /\ isRunning') => retryCount' = 0]_vars
    /\ [][(TickFailed /\ isRunning /\ ~isRunning') => failures' >= maxRetries]_vars

----------------------------------------------------------------------------
(* Claims about the Scheduler on the tracker of this repository (SpecWired) *)

\* C36 as stated: with a remote store that does not fail, every tick of a
\* started Scheduler succeeds, retryCount stays 0, handleError never throws its
\* fatal error, and the Scheduler goes from running to stopped at no tick.
C36_HealthyStaysRunning ==
    /\ [][Len(outcomes') > Len(outcomes) => TickSucceeded]_vars
    /\ [](retryCount = 0)
    /\ [](fatal = 0)
    /\ [][(isRunning /\ ~isRunning') => outcomes' = outcomes]_vars

====
